---- MODULE Spec2Model ----
(***************************************************************************)
(* A model of brain_reader_gui (src/src/main.rs): the PredictionWindow     *)
(* state, the five messages handled by PredictionWindow::update, the       *)
(* lazily created shared drone handle DRONE behind its mutex, the sensor   *)
(* capture read_cyton_board, and the pure helpers Movements::from,         *)
(* display_prediction and display_count.                                   *)
(*                                                                         *)
(* Every caller of update is a process that walks through the handler of   *)
(* its message one fallible call at a time.  The fields of one update call *)
(* (its position, its locals, what it reported) are the record call[c].    *)
(***************************************************************************)
EXTENDS Integers, Sequences, FiniteSets, TLC

(***************************************************************************)
(* Bounds of the model.                                                    *)
(***************************************************************************)
\* number of callers that may be inside update at the same time
NumCallers == 2
\* the history is not grown beyond this many records
MaxHistory == 2
\* shape and sample values of the matrix the board returns
MaxRows == 1
MaxCols == 1
MaxSample == 1
\* longest label built from LabelAlphabet for Movements::from
MaxLabelLen == 4
\* longest history given to display_prediction / display_count
MaxRenderLen == 3
\* shape of the matrices given to the reshaping loop of read_cyton_board
MaxReshapeRows == 3
MaxReshapeCols == 2
\* rows of the tallest one-column matrix given to it
MaxTallRows == 12

VARIABLES
    movement,         \* PredictionWindow.movement
    reading_counter,  \* PredictionWindow.reading_counter
    history,          \* PredictionWindow.history, a sequence of Prediction
    connection,       \* PredictionWindow.connection
    DRONE,            \* state of the Lazy cell holding the drone handle
    lock,             \* holder of the Mutex inside DRONE, Free when unlocked
    connects,         \* number of CommandMode::new calls made so far
    handshakes,       \* number of enable() calls the drone has answered with Ok
    aborted,          \* the process has panicked
    call,             \* call[c]: the update call caller c is in, or made last
    arg,              \* input of the pure function being applied
    out               \* its output

window == <<movement, reading_counter, history, connection>>
shared == <<DRONE, lock, connects, handshakes, aborted>>
pure == <<arg, out>>
vars == <<movement, reading_counter, history, connection, DRONE, lock,
          connects, handshakes, aborted, call, arg, out>>

Callers == 1..NumCallers
Free == 0

(***************************************************************************)
(* Pure helpers.                                                           *)
(***************************************************************************)

\* Movements::from without its six capitalized arms
MovementsFromLowerOnly(value) ==
    CASE value = "takeoff" -> "Takeoff"
      [] value = "right" -> "Right"
      [] value = "left" -> "Left"
      [] value = "land" -> "Land"
      [] value = "forward" -> "Forward"
      [] value = "backward" -> "Backward"
      [] OTHER -> "None"

\* impl From<&str> for Movements
MovementsFrom(value) ==
    CASE value = "takeoff" -> "Takeoff"
      [] value = "right" -> "Right"
      [] value = "left" -> "Left"
      [] value = "land" -> "Land"
      [] value = "forward" -> "Forward"
      [] value = "backward" -> "Backward"
      [] value = "Takeoff" -> "Takeoff"
      [] value = "Right" -> "Right"
      [] value = "Left" -> "Left"
      [] value = "Land" -> "Land"
      [] value = "Forward" -> "Forward"
      [] value = "Backward" -> "Backward"
      [] OTHER -> "None"

\* the match of the Execute arm with the two rotations exchanged
MovementOpRotationsSwapped(m) ==
    CASE m = "Takeoff" -> <<"take_off">>
      [] m = "Land" -> <<"land">>
      [] m = "Right" -> <<"ccw", 90>>
      [] m = "Left" -> <<"cw", 90>>
      [] m = "Forward" -> <<"forward", 100>>
      [] m = "Backward" -> <<"back", 100>>
      [] OTHER -> <<>>

\* the device operation the Execute arm runs for a movement; <<>> for
\* Movements::None, which runs nothing and yields Ok(())
MovementOp(m) ==
    CASE m = "Takeoff" -> <<"take_off">>
      [] m = "Land" -> <<"land">>
      [] m = "Right" -> <<"cw", 90>>
      [] m = "Left" -> <<"ccw", 90>>
      [] m = "Forward" -> <<"forward", 100>>
      [] m = "Backward" -> <<"back", 100>>
      [] OTHER -> <<>>

\* format!("{}", d) for one decimal digit
Digit(d) ==
    CASE d = 0 -> "0" [] d = 1 -> "1" [] d = 2 -> "2" [] d = 3 -> "3"
      [] d = 4 -> "4" [] d = 5 -> "5" [] d = 6 -> "6" [] d = 7 -> "7"
      [] d = 8 -> "8" [] d = 9 -> "9"

RECURSIVE Decimal(_)
\* format!("{}", n) for a usize
Decimal(n) == IF n < 10 THEN Digit(n) ELSE Decimal(n \div 10) \o Digit(n % 10)

RECURSIVE PredictionFold(_, _, _)
\* the for_each of display_prediction, from record i on, in storage order
PredictionFold(h, i, predictions) ==
    IF i > Len(h) THEN predictions
    ELSE PredictionFold(h, i + 1, h[i].prediction_label \o "\n" \o predictions)

\* a display_prediction that appends instead of prepending: oldest first
display_prediction_appending(h) ==
    LET RECURSIVE F(_, _)
        F(i, s) == IF i > Len(h) THEN s
                   ELSE F(i + 1, s \o h[i].prediction_label \o "\n")
    IN F(1, "")

display_prediction(h) == PredictionFold(h, 1, "")

RECURSIVE CountFold(_, _, _)
\* the for_each of display_count
CountFold(h, i, counts) ==
    IF i > Len(h) THEN counts
    ELSE CountFold(h, i + 1, Decimal(h[i].prediction_count) \o "\n" \o counts)

display_count(h) == CountFold(h, 1, "")

\* HashMap::insert: the key is added, or its value replaced
Insert(map, k, v) == [x \in (DOMAIN map) \cup {k} |-> IF x = k THEN v ELSE map[x]]

\* the empty HashMap
EmptyMap == [x \in {} |-> <<>>]

RECURSIVE ReshapeFrom(_, _, _)
\* the loop of read_cyton_board over data.rows().enumerate(): row i (from 0)
\* is stored under format!("c{}", i)
ReshapeFrom(data, i, readings) ==
    IF i >= Len(data) THEN readings
    ELSE ReshapeFrom(data, i + 1, Insert(readings, "c" \o Decimal(i), data[i + 1]))

RECURSIVE ReshapeFromOne(_, _, _)
\* the same loop with the rows numbered from 1
ReshapeFromOne(data, i, readings) ==
    IF i >= Len(data) THEN readings
    ELSE ReshapeFromOne(data, i + 1, Insert(readings, "c" \o Decimal(i + 1), data[i + 1]))

\* a reshaping whose keys start at c1
ReshapeKeysFromOne(data) == ReshapeFromOne(data, 0, EmptyMap)

Reshape(data) == ReshapeFrom(data, 0, EmptyMap)

(***************************************************************************)
(* Values the environment can produce.                                     *)
(***************************************************************************)

\* Prediction { prediction_label, prediction_count }
Prediction(label, count) == [prediction_label |-> label, prediction_count |-> count]

\* the predictions the classifier service answers with: one label for every
\* variant of Movements (in either spelling) and two that match none
Replies ==
    { Prediction("Takeoff", 1), Prediction("land", 2), Prediction("Right", 3),
      Prediction("left", 4), Prediction("Forward", 1), Prediction("backward", 12),
      Prediction("", 0), Prediction("LAND", 2) }

\* the rows a board matrix can have: up to MaxCols samples of 0..MaxSample
Rows == UNION { [1..n -> 0..MaxSample] : n \in 0..MaxCols }

\* the matrices get_board_data can return: up to MaxRows rows of equal length
Matrices ==
    UNION { { m \in [1..r -> Rows] : \A i, j \in 1..r : Len(m[i]) = Len(m[j]) }
            : r \in 0..MaxRows }

\* the error codes a failing BrainFlow call reports
BrainFlowErrors == { "BOARD_NOT_READY_ERROR", "GENERAL_ERROR" }

(***************************************************************************)
(* One update call.                                                        *)
(***************************************************************************)

\* the Result of read_cyton_board, before it has returned
NoResult == [tag |-> "none", map |-> EmptyMap, err |-> "none"]

\* a caller that has not been inside update yet
NoCall ==
    [ msg |-> "none",        \* the Message being handled
      pc |-> "idle",         \* the call the handler makes next; idle outside update
      movement |-> "",       \* Execute's local clone of self.movement
      ops |-> <<>>,          \* the device operations this call has started
      opRes |-> "none",      \* what the device operation returned
      outcome |-> "none",    \* how the call ended: done, gated, or the error it printed
      session |-> "none",    \* the board session of this call's capture
      calls |-> <<>>,        \* the board calls this call's capture has made, with their results
      data |-> <<>>,         \* the matrix get_board_data returned
      result |-> NoResult ]  \* what read_cyton_board returned

\* caller c is outside update and the process is alive
Idle(c) == ~aborted /\ call[c].pc = "idle"

\* caller c is handling message m and is about to make call p
At(c, m, p) == ~aborted /\ call[c].msg = m /\ call[c].pc = p

\* the handler returns: the caller is outside update again
Return(r, how) == [r EXCEPT !.pc = "idle", !.outcome = how]

DeviceMessages == {"Connect", "Execute", "Takeoff", "Land"}

(***************************************************************************)
(* read_cyton_board                                                        *)
(***************************************************************************)

\* the statements of read_cyton_board in a different order: the stream is
\* stopped before the wait and the session released before the data is read
CaptureOrderReleaseFirst ==
    << "new", "prepare_session", "start_stream", "stop_stream", "sleep",
       "release_session", "get_board_data" >>

\* the calls of read_cyton_board, in statement order
CaptureOrder ==
    << "new", "prepare_session", "start_stream", "sleep", "stop_stream",
       "get_board_data", "release_session" >>

\* the position of a call in CaptureOrder
CaptureIndex(step) == CHOOSE i \in 1..Len(CaptureOrder) : CaptureOrder[i] = step

\* what the handler does after a call of the capture succeeded: the next
\* statement, or back in update (Runtime::new) after the last one
AfterStep(step) ==
    IF CaptureIndex(step) < Len(CaptureOrder)
    THEN CaptureOrder[CaptureIndex(step) + 1]
    ELSE "rt"

\* the board session after a successful call
SessionAfter(step, session) ==
    CASE step = "prepare_session" -> "Prepared"
      [] step = "start_stream" -> "Streaming"
      [] step = "stop_stream" -> "Stopped"
      [] step = "get_board_data" -> "Drained"
      [] step = "release_session" -> "Released"
      [] OTHER -> session

\* an entry of the log of board calls: the call made and whether it returned Ok
Made(step, ok) == [step |-> step, ok |-> ok]

\* a failing board call whose error is dropped: the capture carries on
CaptureFailsIgnored(r, step, err) ==
    [r EXCEPT !.calls = Append(@, Made(step, FALSE)), !.pc = AfterStep(step),
              !.result = IF step = CaptureOrder[Len(CaptureOrder)]
                         THEN [tag |-> "Ok", map |-> Reshape(r.data), err |-> "none"]
                         ELSE @]

\* a capture that releases the session before it returns the error
CaptureFailsReleasing(r, step, err) ==
    Return([r EXCEPT !.calls = IF step \in {"new", "prepare_session", "release_session"}
                               THEN Append(@, Made(step, FALSE))
                               ELSE Append(Append(@, Made(step, FALSE)),
                                           Made("release_session", TRUE)),
                     !.session = IF step \in {"new", "prepare_session", "release_session"}
                                 THEN "Failed" ELSE "Released",
                     !.result = [tag |-> "Err", map |-> EmptyMap, err |-> err]],
           "CaptureError")

\* a board call fails: the ? operator returns the error from read_cyton_board
\* and update prints it and returns
CaptureFails(r, step, err) ==
    Return([r EXCEPT !.calls = Append(@, Made(step, FALSE)), !.session = "Failed",
                     !.result = [tag |-> "Err", map |-> EmptyMap, err |-> err]],
           "CaptureError")

\* a board call succeeds; get_board_data yields the matrix d, and after
\* release_session the matrix is reshaped and returned
CaptureSucceeds(r, step, d) ==
    [r EXCEPT !.calls = Append(@, Made(step, TRUE)),
              !.session = SessionAfter(step, @),
              !.pc = AfterStep(step),
              !.data = IF step = "get_board_data" THEN d ELSE @,
              !.result = IF AfterStep(step) = "rt"
                         THEN [tag |-> "Ok", map |-> Reshape(r.data), err |-> "none"]
                         ELSE @]

\* the callers inside the ReadBrain arm
Reading == { c \in Callers : call[c].msg = "ReadBrain" /\ call[c].pc # "idle" }

\* Message::ReadBrain arrives
ReadBrainBegin(c) ==
    /\ Idle(c)
    /\ Len(history) + Cardinality(Reading) < MaxHistory
    /\ call' = [call EXCEPT ![c] = [NoCall EXCEPT !.msg = "ReadBrain", !.pc = CaptureOrder[1],
                                                  !.session = "Idle"]]
    /\ UNCHANGED <<window, shared, pure>>

\* one call of read_cyton_board: BoardShim::new, prepare_session, start_stream,
\* stop_stream, get_board_data or release_session, each of which can fail
CaptureCall(c) ==
    \E step \in { CaptureOrder[i] : i \in 1..Len(CaptureOrder) } \ {"sleep"} :
        /\ At(c, "ReadBrain", step)
        /\ \/ \E d \in (IF step = "get_board_data" THEN Matrices ELSE {call[c].data}) :
                call' = [call EXCEPT ![c] = CaptureSucceeds(@, step, d)]
           \/ \E err \in BrainFlowErrors :
                call' = [call EXCEPT ![c] = CaptureFails(@, step, err)]
        /\ UNCHANGED <<window, shared, pure>>

\* thread::sleep(Duration::from_secs(10))
CaptureSleep(c) ==
    /\ At(c, "ReadBrain", "sleep")
    /\ call' = [call EXCEPT ![c] = CaptureSucceeds(@, "sleep", @.data)]
    /\ UNCHANGED <<window, shared, pure>>

(***************************************************************************)
(* Message::ReadBrain, after the capture                                   *)
(***************************************************************************)

\* Runtime::new() in the ReadBrain arm
ReadBrainRuntime(c) ==
    /\ At(c, "ReadBrain", "rt")
    /\ \/ call' = [call EXCEPT ![c] = [@ EXCEPT !.pc = "send"]]
       \/ call' = [call EXCEPT ![c] = Return(@, "RuntimeError")]
    /\ UNCHANGED <<window, shared, pure>>

\* the POST of the readings to the classifier
ReadBrainSend(c) ==
    /\ At(c, "ReadBrain", "send")
    /\ \/ call' = [call EXCEPT ![c] = [@ EXCEPT !.pc = "json"]]
       \/ call' = [call EXCEPT ![c] = Return(@, "ClassifierError")]
    /\ UNCHANGED <<window, shared, pure>>

\* a ReadBrain that puts the new prediction in front of the stored ones
StorePredictionInFront(json) ==
    /\ movement' = json.prediction_label
    /\ reading_counter' = json.prediction_count
    /\ history' = <<json>> \o history

\* a ReadBrain that stores the label and the record but not the count
StorePredictionStaleCounter(json) ==
    /\ movement' = json.prediction_label
    /\ reading_counter' = reading_counter
    /\ history' = Append(history, json)

\* self.movement = ..; self.reading_counter = ..; self.history.push(json)
StorePrediction(json) ==
    /\ movement' = json.prediction_label
    /\ reading_counter' = json.prediction_count
    /\ history' = Append(history, json)

\* a decode failure that is printed but still stored, as an empty prediction
DecodeFailsStored(c) ==
    /\ call' = [call EXCEPT ![c] = Return(@, "ClassifierError")]
    /\ StorePrediction(Prediction("", 0))
    /\ UNCHANGED connection

\* response.json::<Prediction>() fails: the error is printed, update returns
DecodeFails(c) ==
    /\ call' = [call EXCEPT ![c] = Return(@, "ClassifierError")]
    /\ UNCHANGED window

\* the decoding of the classifier's answer and, when it succeeds, the three
\* assignments that end the arm
ReadBrainJson(c) ==
    /\ At(c, "ReadBrain", "json")
    /\ \/ \E json \in Replies :
            /\ call' = [call EXCEPT ![c] = Return(@, "done")]
            /\ StorePrediction(json)
            /\ UNCHANGED connection
       \/ DecodeFails(c)
    /\ UNCHANGED <<shared, pure>>

(***************************************************************************)
(* DRONE: Lazy<Arc<Mutex<CommandMode>>>                                    *)
(***************************************************************************)

\* a handle that is not cached: every dereference by a caller that has not
\* connected in this call runs the initializer again
LazyInitBeginPerAccess(c) ==
    /\ \E m \in DeviceMessages : At(c, m, "lock")
    /\ DRONE \in {"uninit", "ready"}
    /\ lock = Free
    /\ DRONE' = "initializing"
    /\ call' = [call EXCEPT ![c] = [@ EXCEPT !.pc = "init"]]
    /\ UNCHANGED <<window, lock, connects, handshakes, aborted, pure>>

\* the first dereference of DRONE starts its initializer; a caller that
\* dereferences DRONE while another one initializes it waits
LazyInitBegin(c) ==
    /\ \E m \in DeviceMessages : At(c, m, "lock")
    /\ DRONE = "uninit"
    /\ DRONE' = "initializing"
    /\ call' = [call EXCEPT ![c] = [@ EXCEPT !.pc = "init"]]
    /\ UNCHANGED <<window, lock, connects, handshakes, aborted, pure>>

\* the initializer: Runtime::new().unwrap(), then
\* rt.block_on(CommandMode::new(..)).unwrap(); either unwrap panics on Err
LazyInit(c) ==
    /\ \E m \in DeviceMessages : At(c, m, "init")
    /\ \/ /\ DRONE' = "ready"
          /\ connects' = connects + 1
          /\ aborted' = aborted
          /\ call' = [call EXCEPT ![c] = [@ EXCEPT !.pc = "lock"]]
       \/ /\ DRONE' = "poisoned"
          /\ connects' = connects
          /\ aborted' = TRUE
          /\ call' = [call EXCEPT ![c] = [@ EXCEPT !.outcome = "panic"]]
       \/ /\ DRONE' = "poisoned"
          /\ connects' = connects + 1
          /\ aborted' = TRUE
          /\ call' = [call EXCEPT ![c] = [@ EXCEPT !.outcome = "panic"]]
    /\ UNCHANGED <<window, lock, handshakes, pure>>

(***************************************************************************)
(* The steps the four device arms share.                                   *)
(***************************************************************************)

\* a lock() in place of try_lock(): the caller waits for the holder
BlockingLock(c, m) ==
    /\ At(c, m, "lock")
    /\ DRONE = "ready"
    /\ lock = Free
    /\ lock' = c
    /\ call' = [call EXCEPT ![c] = [@ EXCEPT !.pc = "rt"]]
    /\ UNCHANGED <<window, DRONE, connects, handshakes, aborted, pure>>

\* a try_lock() that never reports contention: the guard is handed out even
\* when another caller holds it
UncheckedLock(c, m) ==
    /\ At(c, m, "lock")
    /\ DRONE = "ready"
    /\ lock' = c
    /\ call' = [call EXCEPT ![c] = [@ EXCEPT !.pc = "rt"]]
    /\ UNCHANGED <<window, DRONE, connects, handshakes, aborted, pure>>

\* let Ok(drone) = DRONE.try_lock() else { eprintln!(..); return; }
TryLock(c, m) ==
    /\ At(c, m, "lock")
    /\ DRONE = "ready"
    /\ IF lock = Free
       THEN /\ lock' = c
            /\ call' = [call EXCEPT ![c] = [@ EXCEPT !.pc = "rt"]]
       ELSE /\ lock' = lock
            /\ call' = [call EXCEPT ![c] = Return(@, "LockContention")]
    /\ UNCHANGED <<window, DRONE, connects, handshakes, aborted, pure>>

\* an arm whose guard outlives the return taken when Runtime::new() fails
RuntimeThenLeaks(c, m, op) ==
    /\ At(c, m, "rt")
    /\ \/ /\ op # <<>>
          /\ call' = [call EXCEPT ![c] = [@ EXCEPT !.pc = "op", !.ops = Append(@, op)]]
          /\ lock' = lock
       \/ /\ op = <<>>
          /\ call' = [call EXCEPT ![c] = Return([@ EXCEPT !.opRes = "ok"], "done")]
          /\ lock' = Free
       \/ /\ call' = [call EXCEPT ![c] = Return(@, "RuntimeError")]
          /\ lock' = lock
    /\ UNCHANGED <<window, DRONE, connects, handshakes, aborted, pure>>

\* let Ok(rt) = Runtime::new() else { eprintln!(..); return; } and, when the
\* runtime exists, the start of rt.block_on(op); an empty op (Movements::None)
\* starts nothing and the arm ends.  The guard is dropped on either return.
RuntimeThen(c, m, op) ==
    /\ At(c, m, "rt")
    /\ \/ /\ op # <<>>
          /\ call' = [call EXCEPT ![c] = [@ EXCEPT !.pc = "op", !.ops = Append(@, op)]]
          /\ lock' = lock
       \/ /\ op = <<>>
          /\ call' = [call EXCEPT ![c] = Return([@ EXCEPT !.opRes = "ok"], "done")]
          /\ lock' = Free
       \/ /\ call' = [call EXCEPT ![c] = Return(@, "RuntimeError")]
          /\ lock' = Free
    /\ UNCHANGED <<window, DRONE, connects, handshakes, aborted, pure>>

\* let _ = rt.block_on(op): the operation returns, its result is discarded,
\* the arm ends and the guard is dropped
OpDiscarded(c, m) ==
    /\ At(c, m, "op")
    /\ \E res \in {"ok", "err"} :
          call' = [call EXCEPT ![c] = Return([@ EXCEPT !.opRes = res], "done")]
    /\ lock' = Free
    /\ UNCHANGED <<window, DRONE, connects, handshakes, aborted, pure>>

(***************************************************************************)
(* Message::Connect                                                        *)
(***************************************************************************)

\* if self.connection { return; }
ConnectBegin(c) ==
    /\ Idle(c)
    /\ call' = [call EXCEPT ![c] =
                  IF connection
                  THEN Return([NoCall EXCEPT !.msg = "Connect"], "gated")
                  ELSE [NoCall EXCEPT !.msg = "Connect", !.pc = "lock"]]
    /\ UNCHANGED <<window, shared, pure>>

ConnectTryLock(c) == TryLock(c, "Connect")

ConnectRuntime(c) == RuntimeThen(c, "Connect", <<"enable">>)

\* a Connect that sets the flag whatever enable() returned
ConnectEnableUnchecked(c) ==
    /\ At(c, "Connect", "op")
    /\ \E res \in {"ok", "err"} :
          /\ call' = [call EXCEPT ![c] =
                        Return([@ EXCEPT !.opRes = res],
                               IF res = "ok" THEN "done" ELSE "HandshakeError")]
          /\ handshakes' = IF res = "ok" THEN handshakes + 1 ELSE handshakes
    /\ connection' = TRUE
    /\ lock' = Free
    /\ UNCHANGED <<movement, reading_counter, history, DRONE, connects, aborted, pure>>

\* let res = rt.block_on(drone.enable()); on Err the result is printed and
\* update returns; on Ok self.connection = true.  The guard is dropped.
ConnectEnable(c) ==
    /\ At(c, "Connect", "op")
    /\ \/ /\ call' = [call EXCEPT ![c] = Return([@ EXCEPT !.opRes = "ok"], "done")]
          /\ connection' = TRUE
          /\ handshakes' = handshakes + 1
       \/ /\ call' = [call EXCEPT ![c] = Return([@ EXCEPT !.opRes = "err"], "HandshakeError")]
          /\ connection' = connection
          /\ handshakes' = handshakes
    /\ lock' = Free
    /\ UNCHANGED <<movement, reading_counter, history, DRONE, connects, aborted, pure>>

(***************************************************************************)
(* Message::Execute                                                        *)
(***************************************************************************)

\* if !self.connection { return; }  let movement = self.movement.clone();
ExecuteBegin(c) ==
    /\ Idle(c)
    /\ call' = [call EXCEPT ![c] =
                  IF ~connection
                  THEN Return([NoCall EXCEPT !.msg = "Execute"], "gated")
                  ELSE [NoCall EXCEPT !.msg = "Execute", !.pc = "lock",
                                      !.movement = movement]]
    /\ UNCHANGED <<window, shared, pure>>

ExecuteTryLock(c) == TryLock(c, "Execute")

\* match Movements::from(movement.as_str()) { .. }
ExecuteRuntime(c) ==
    RuntimeThen(c, "Execute", MovementOp(MovementsFrom(call[c].movement)))

ExecuteOp(c) == OpDiscarded(c, "Execute")

(***************************************************************************)
(* Message::Takeoff and Message::Land                                      *)
(***************************************************************************)

\* a Takeoff arm without its first statement: the flag is not consulted
TakeoffBeginUngated(c) ==
    /\ Idle(c)
    /\ call' = [call EXCEPT ![c] = [NoCall EXCEPT !.msg = "Takeoff", !.pc = "lock"]]
    /\ UNCHANGED <<window, shared, pure>>

\* if !self.connection { return; }
TakeoffBegin(c) ==
    /\ Idle(c)
    /\ call' = [call EXCEPT ![c] =
                  IF ~connection
                  THEN Return([NoCall EXCEPT !.msg = "Takeoff"], "gated")
                  ELSE [NoCall EXCEPT !.msg = "Takeoff", !.pc = "lock"]]
    /\ UNCHANGED <<window, shared, pure>>

TakeoffTryLock(c) == TryLock(c, "Takeoff")

TakeoffRuntime(c) == RuntimeThen(c, "Takeoff", <<"take_off">>)

TakeoffOp(c) == OpDiscarded(c, "Takeoff")

\* if !self.connection { return; }
LandBegin(c) ==
    /\ Idle(c)
    /\ call' = [call EXCEPT ![c] =
                  IF ~connection
                  THEN Return([NoCall EXCEPT !.msg = "Land"], "gated")
                  ELSE [NoCall EXCEPT !.msg = "Land", !.pc = "lock"]]
    /\ UNCHANGED <<window, shared, pure>>

LandTryLock(c) == TryLock(c, "Land")

LandRuntime(c) == RuntimeThen(c, "Land", <<"land">>)

LandOp(c) == OpDiscarded(c, "Land")

(***************************************************************************)
(* The program.                                                            *)
(***************************************************************************)

\* PredictionWindow::new(), DRONE not yet dereferenced, nobody inside update
Init ==
    /\ movement = ""
    /\ reading_counter = 0
    /\ history = <<>>
    /\ connection = FALSE
    /\ DRONE = "uninit"
    /\ lock = Free
    /\ connects = 0
    /\ handshakes = 0
    /\ aborted = FALSE
    /\ call = [c \in Callers |-> NoCall]
    /\ arg = "none"
    /\ out = "none"

Next ==
    \E c \in Callers :
        \/ ReadBrainBegin(c)
        \/ CaptureCall(c)
        \/ CaptureSleep(c)
        \/ ReadBrainRuntime(c)
        \/ ReadBrainSend(c)
        \/ ReadBrainJson(c)
        \/ LazyInitBegin(c)
        \/ LazyInit(c)
        \/ ConnectBegin(c)
        \/ ConnectTryLock(c)
        \/ ConnectRuntime(c)
        \/ ConnectEnable(c)
        \/ ExecuteBegin(c)
        \/ ExecuteTryLock(c)
        \/ ExecuteRuntime(c)
        \/ ExecuteOp(c)
        \/ TakeoffBegin(c)
        \/ TakeoffTryLock(c)
        \/ TakeoffRuntime(c)
        \/ TakeoffOp(c)
        \/ LandBegin(c)
        \/ LandTryLock(c)
        \/ LandRuntime(c)
        \/ LandOp(c)

Spec == Init /\ [][Next]_vars

(***************************************************************************)
(* Movements::from on its own: every label of Labels is resolved once.     *)
(***************************************************************************)

LabelAlphabet == {"l", "L", "a", "n", "d", " "}

RECURSIVE StringsOfLen(_)
StringsOfLen(n) ==
    IF n = 0 THEN {""}
    ELSE { s \o ch : s \in StringsOfLen(n - 1), ch \in LabelAlphabet }

\* the labels Movements::from is applied to: every string over LabelAlphabet
\* of up to MaxLabelLen characters, the twelve literals of the match, and
\* spellings close to them
Labels ==
    UNION { StringsOfLen(n) : n \in 0..MaxLabelLen }
    \cup { "takeoff", "right", "left", "land", "forward", "backward",
           "Takeoff", "Right", "Left", "Land", "Forward", "Backward" }
    \cup { "TAKEOFF", "RIGHT", "LEFT", "LAND", "FORWARD", "BACKWARD",
           "takeOff", "take_off", "take off", "rIGHT", "lefT", "forwards",
           "back", "Back", "backwards", " takeoff", "right ", "\tleft",
           "land\n", "Forward ", " Backward", "None", "none", "\n", "up" }

\* the program state outside the function being applied
Untouched ==
    /\ movement = ""
    /\ reading_counter = 0
    /\ connection = FALSE
    /\ DRONE = "uninit"
    /\ lock = Free
    /\ connects = 0
    /\ handshakes = 0
    /\ aborted = FALSE
    /\ call = [c \in Callers |-> NoCall]

InitResolve ==
    /\ Untouched
    /\ history = <<>>
    /\ arg \in Labels
    /\ out = "pending"

\* Movements::from(arg)
Resolve ==
    /\ out = "pending"
    /\ out' = MovementsFrom(arg)
    /\ UNCHANGED <<window, shared, call, arg>>

SpecResolve == InitResolve /\ [][Resolve]_vars

(***************************************************************************)
(* The two renderings of view() on their own, for every history of up to   *)
(* MaxRenderLen records.                                                   *)
(***************************************************************************)

RenderLabels == {"Forward", "Land", "left", "", "up\ndown"}
RenderCounts == {0, 2, 10}

RenderHistories ==
    UNION { [1..n -> { Prediction(l, k) : l \in RenderLabels, k \in RenderCounts }]
            : n \in 0..MaxRenderLen }

NotRendered == [done |-> FALSE, prediction |-> "", count |-> ""]

\* a window whose history was filled by ReadBrain: movement and counter are
\* those of the last record
InitRender ==
    /\ history \in RenderHistories
    /\ movement = IF history = <<>> THEN "" ELSE history[Len(history)].prediction_label
    /\ reading_counter = IF history = <<>> THEN 0 ELSE history[Len(history)].prediction_count
    /\ connection = FALSE
    /\ DRONE = "uninit"
    /\ lock = Free
    /\ connects = 0
    /\ handshakes = 0
    /\ aborted = FALSE
    /\ call = [c \in Callers |-> NoCall]
    /\ arg = "none"
    /\ out = NotRendered

\* view(): text(display_count(&self.history)), text(display_prediction(&self.history))
View ==
    /\ ~out.done
    /\ out' = [done |-> TRUE, prediction |-> display_prediction(history),
               count |-> display_count(history)]
    /\ UNCHANGED <<window, shared, call, arg>>

SpecRender == InitRender /\ [][View]_vars

(***************************************************************************)
(* The reshaping of read_cyton_board on its own: every matrix of up to     *)
(* MaxReshapeRows x MaxReshapeCols samples, and one-column matrices of up  *)
(* to MaxTallRows rows whose row i holds the sample i.                     *)
(***************************************************************************)

ReshapeSamples == {0, 1}

\* the one-column matrix of r rows whose row of index i (from 0) is <<i>>
TallMatrix(r) == [i \in 1..r |-> <<i - 1>>]

ReshapeMatrices ==
    UNION { [1..r -> [1..n -> ReshapeSamples]] : r \in 0..MaxReshapeRows, n \in 0..MaxReshapeCols }
    \cup { TallMatrix(r) : r \in 0..MaxTallRows }

NotReshaped == [done |-> FALSE, map |-> EmptyMap]

InitReshape ==
    /\ Untouched
    /\ history = <<>>
    /\ arg \in ReshapeMatrices
    /\ out = NotReshaped

\* let mut readings = HashMap::new(); for (i, arr) in data.rows() .. { .. }
Reshaping ==
    /\ ~out.done
    /\ out' = [done |-> TRUE, map |-> Reshape(arg)]
    /\ UNCHANGED <<window, shared, call, arg>>

SpecReshape == InitReshape /\ [][Reshaping]_vars

(***************************************************************************)
(* Properties.                                                             *)
(***************************************************************************)

\* caller c is at its try_lock while another caller holds the guard
Contended(c) == call[c].pc = "lock" /\ DRONE = "ready" /\ lock # Free

\* caller c moved in this step
Moved(c) == call'[c] # call[c]

\* caller c's update call ends in this step
Returns(c) == call[c].pc # "idle" /\ call'[c].pc = "idle"

\* C1: when a caller reaches try_lock while another caller holds the lock on
\* the drone handle, its try_lock can be taken at once (it does not wait for
\* the holder), and taking it ends the caller's update call with the lock
\* contention reported, no device operation started, the lock still with its
\* holder and the window untouched; the handler makes no second attempt.
C1_ContentionFailsFast ==
    /\ [](\A c \in Callers : Contended(c) => ENABLED TryLock(c, call[c].msg))
    /\ [][\A c \in Callers :
            (Contended(c) /\ Moved(c)) =>
                /\ call'[c].pc = "idle"
                /\ call'[c].outcome = "LockContention"
                /\ call'[c].ops = <<>>
                /\ lock' = lock
                /\ UNCHANGED window]_vars

\* C1's case: a caller has lost the lock to one whose operation is in flight
C1_Witness ==
    \E c, d \in Callers :
        /\ c # d
        /\ call[c].pc = "idle" /\ call[c].outcome = "LockContention"
        /\ call[c].ops = <<>>
        /\ lock = d /\ call[d].pc = "op"

\* the callers with a device operation in flight
InFlight == { c \in Callers : call[c].pc = "op" }

\* C2: at most one device operation is in flight on the drone handle, it is
\* one of enable, take_off, land, cw, ccw, forward, back, and the caller
\* running it holds the lock.
C2_OneOperationInFlight ==
    /\ Cardinality(InFlight) <= 1
    /\ \A c \in InFlight :
          /\ lock = c
          /\ Len(call[c].ops) = 1
          /\ call[c].ops[1][1] \in {"enable", "take_off", "land", "cw", "ccw", "forward", "back"}

\* C2's case: a rotation is in flight while another caller is about to try the lock
C2_Witness ==
    \E c, d \in Callers :
        /\ c # d
        /\ call[c].pc = "op" /\ call[c].ops = << <<"cw", 90>> >>
        /\ call[d].pc = "lock" /\ call[d].msg = "Land"

\* C3: in a capture a failed board call is the last one made: the capture has
\* returned an error, update has printed it and returned, and no mapping was
\* produced; a mapping is returned only after all the calls succeeded.
C3_CaptureAbortsOnFailure ==
    \A c \in Callers :
        LET r == call[c] IN
        /\ \A i \in 1..Len(r.calls) :
              ~r.calls[i].ok =>
                  /\ i = Len(r.calls)
                  /\ r.pc = "idle"
                  /\ r.outcome = "CaptureError"
                  /\ r.result.tag = "Err"
        /\ r.result.tag = "Ok" =>
              /\ Len(r.calls) = 7
              /\ \A i \in 1..7 : r.calls[i].ok
              /\ { r.calls[i].step : i \in 1..7 } =
                    { "new", "prepare_session", "start_stream", "sleep", "stop_stream",
                      "get_board_data", "release_session" }
        /\ r.result.tag # "Ok" => r.result.map = EmptyMap

\* C3's case: release_session failed after a non-empty matrix had been read
C3_Witness ==
    \E c \in Callers :
        /\ Len(call[c].calls) = 7 /\ ~call[c].calls[7].ok
        /\ call[c].calls[7].step = "release_session"
        /\ call[c].data = << <<1>> >>
        /\ call[c].result.tag = "Err" /\ call[c].pc = "idle"

\* the steps of the session state machine
SessionForward ==
    { <<"Idle", "Prepared">>, <<"Prepared", "Streaming">>, <<"Streaming", "Stopped">>,
      <<"Stopped", "Drained">>, <<"Drained", "Released">> }

\* C4: a capture that returned a mapping made the calls new, prepare_session,
\* start_stream, sleep, stop_stream, get_board_data, release_session once
\* each in this order, and during a capture the session only steps forward
\* along Idle, Prepared, Streaming, Stopped, Drained, Released or goes to
\* Failed from a state other than Released and Failed.
C4_CaptureOrdered ==
    /\ [](\A c \in Callers :
            call[c].result.tag = "Ok" =>
                [i \in 1..Len(call[c].calls) |-> call[c].calls[i].step] =
                    << "new", "prepare_session", "start_stream", "sleep", "stop_stream",
                       "get_board_data", "release_session" >>)
    /\ [][\A c \in Callers :
            (call[c].pc # "idle" /\ call'[c].session # call[c].session) =>
                \/ <<call[c].session, call'[c].session>> \in SessionForward
                \/ /\ call'[c].session = "Failed"
                   /\ call[c].session \in {"Idle", "Prepared", "Streaming", "Stopped", "Drained"}]_vars

\* C4's case: a capture went through to Released and returned its mapping
C4_Witness ==
    \E c \in Callers :
        /\ call[c].result.tag = "Ok" /\ call[c].session = "Released"
        /\ Len(call[c].calls) = 7
        /\ call[c].data = << <<0>> >>

Vocabulary == {"takeoff", "right", "left", "land", "forward", "backward"}

\* the first-letter-capitalized form of a word of Vocabulary, which is also
\* the name of its Movements variant
Capitalized(w) ==
    CASE w = "takeoff" -> "Takeoff" [] w = "right" -> "Right" [] w = "left" -> "Left"
      [] w = "land" -> "Land" [] w = "forward" -> "Forward" [] w = "backward" -> "Backward"

\* C5: Movements::from returns the variant of a word of the vocabulary for
\* exactly that word in lowercase or with its first letter capitalized, and
\* Movements::None for every other label.
C5_ResolveExact ==
    out # "pending" =>
        /\ \A w \in Vocabulary : arg \in {w, Capitalized(w)} => out = Capitalized(w)
        /\ (\A w \in Vocabulary : arg \notin {w, Capitalized(w)}) => out = "None"

\* C5's case: a label of the vocabulary with a trailing blank has been resolved to None
C5_Witness == arg = "right " /\ out = "None"

RECURSIVE NewestFirstLines(_, _)
\* the labels of records k, k-1, .., 1 of h, each followed by a newline
NewestFirstLines(h, k) ==
    IF k = 0 THEN ""
    ELSE h[k].prediction_label \o "\n" \o NewestFirstLines(h, k - 1)

RECURSIVE NewestFirstJoined(_, _)
\* the labels of records k, k-1, .., 1 of h with a newline between them
NewestFirstJoined(h, k) ==
    IF k = 0 THEN ""
    ELSE IF k = 1 THEN h[1].prediction_label
    ELSE h[k].prediction_label \o "\n" \o NewestFirstJoined(h, k - 1)

\* C6 as stated: display_prediction yields the labels, most recent first,
\* joined by newlines ("Land\nForward" for Forward then Land).
C6_JoinedByNewline ==
    out.done => out.prediction = NewestFirstJoined(history, Len(history))

\* C6, amended: display_prediction yields the labels of rn, .., r1 in this
\* order, each followed by a newline ("Land\nForward\n" for Forward then
\* Land), and rendering leaves the stored history as it is.
C6_NewestFirstLines ==
    /\ [](out.done => out.prediction = NewestFirstLines(history, Len(history)))
    /\ [][history' = history]_vars

\* C6's case: Forward then Land has been rendered
C6_Witness ==
    /\ history = << Prediction("Forward", 0), Prediction("Land", 2) >>
    /\ out.done
    /\ out.prediction = "Land\nForward\n"

\* C7: the history changes only when a ReadBrain call ends successfully, and
\* then by exactly one record added at its end; every other step leaves it
\* as it is, so an earlier history is a prefix of every later one.
C7_HistoryAppendOnly ==
    [][history' # history =>
          /\ Len(history') = Len(history) + 1
          /\ SubSeq(history', 1, Len(history)) = history
          /\ \E c \in Callers :
                /\ call[c].msg = "ReadBrain" /\ call[c].pc = "json"
                /\ Returns(c) /\ call'[c].outcome = "done"]_vars

\* C7's case: two different predictions are stored, in the order they came
C7_Witness ==
    /\ Len(history) = 2
    /\ history[1].prediction_label = "Forward"
    /\ history[2].prediction_label = "land"

\* the ways an update call fails
Failures ==
    {"CaptureError", "RuntimeError", "ClassifierError", "LockContention", "HandshakeError",
     "panic"}

\* C8: a step in which an update call fails (a capture, runtime, classifier,
\* lock, handshake or device command failure) leaves movement, counter,
\* history and connection flag unchanged, and so does every step of a call
\* before its last: the window changes only in the step that ends a call
\* without failure.
C8_FailureLeavesWindow ==
    [][/\ \A c \in Callers :
             (Moved(c) /\ (call'[c].outcome \in Failures \/ call'[c].opRes = "err"))
                 => UNCHANGED window
       /\ window' # window =>
             \E c \in Callers :
                 /\ Returns(c)
                 /\ call'[c].outcome = "done"
                 /\ call'[c].opRes # "err"]_vars

\* C8's case: after a prediction was stored, a classifier answer could not be
\* decoded and a handshake failed
C8_Witness ==
    /\ Len(history) = 1 /\ ~connection
    /\ \E c, d \in Callers :
          /\ call[c].pc = "idle" /\ call[c].outcome = "ClassifierError"
          /\ call[d].pc = "idle" /\ call[d].outcome = "HandshakeError"

\* C9: the connection flag starts false, changes only from false to true and
\* only in the step in which the Connect call holding the lock gets Ok from
\* enable(); whenever it is true, enable() has succeeded before.
C9_ConnectionFlag ==
    /\ connection = FALSE
    /\ [][connection' # connection =>
            /\ connection' = TRUE
            /\ \E c \in Callers :
                  /\ call[c].msg = "Connect" /\ call[c].pc = "op" /\ lock = c
                  /\ call[c].ops = << <<"enable">> >>
                  /\ call'[c].opRes = "ok"
                  /\ handshakes' = handshakes + 1]_vars
    /\ [](connection => handshakes > 0)

\* C9's case: the flag is still set after a later handshake failed
C9_Witness ==
    /\ connection /\ handshakes = 1
    /\ \E c \in Callers : call[c].pc = "idle" /\ call[c].outcome = "HandshakeError"

\* C10 as stated: the first access to DRONE never aborts the process, and a
\* caller whose access failed is back outside update with the error reported.
C10_ConnectNeverAborts ==
    /\ ~aborted
    /\ DRONE # "poisoned"
    /\ \A c \in Callers : call[c].outcome # "panic"

\* the keys c0, c1, .. as the capture writes them
KeyNames ==
    << "c0", "c1", "c2", "c3", "c4", "c5", "c6", "c7", "c8", "c9", "c10", "c11",
       "c12", "c13", "c14", "c15" >>

\* C11: for a matrix of R rows the mapping has exactly the R keys c0 ..
\* c<R-1>, key c<i> holds the samples of row i in their order, and so all
\* its sequences have the length of a matrix row.
C11_ReshapeByRow ==
    out.done =>
        LET R == Len(arg) IN
        /\ DOMAIN out.map = { KeyNames[i + 1] : i \in 0..(R - 1) }
        /\ Cardinality(DOMAIN out.map) = R
        /\ \A i \in 0..(R - 1) : out.map[KeyNames[i + 1]] = arg[i + 1]
        /\ \A k \in DOMAIN out.map : Len(out.map[k]) = Len(arg[1])

\* C11's case: a matrix of eleven distinct rows has been reshaped
C11_Witness ==
    /\ arg = TallMatrix(11)
    /\ out.done
    /\ out.map["c10"] = <<10>>
    /\ out.map["c0"] = <<0>>

\* C12: CommandMode::new is called at most once; it is called only by the
\* initializer of DRONE, which starts only when a Connect call reaches its
\* try_lock while DRONE has never been dereferenced; every caller that holds
\* the lock or runs a device operation uses the handle that call created.
C12_OneConnection ==
    /\ [](connects <= 1)
    /\ []((DRONE = "uninit") => (connects = 0 /\ lock = Free))
    /\ [](\A c \in Callers :
              (call[c].msg \in DeviceMessages /\ call[c].pc \in {"rt", "op"}) =>
                  (lock = c /\ DRONE = "ready" /\ connects = 1))
    /\ [][connects' # connects =>
            /\ connects' = connects + 1
            /\ \E c \in Callers : call[c].msg = "Connect" /\ call[c].pc = "init" /\ Moved(c)]_vars
    /\ [][(DRONE' # DRONE /\ DRONE' = "initializing") =>
            /\ DRONE = "uninit"
            /\ \E c \in Callers : call[c].msg = "Connect" /\ call[c].pc = "lock" /\ Moved(c)]_vars

\* C12's case: on the one connection a Takeoff has been completed and an
\* Execute is running its operation
C12_Witness ==
    /\ connects = 1
    /\ \E c, d \in Callers :
          /\ call[c].msg = "Execute" /\ call[c].pc = "op"
          /\ call[d].msg = "Takeoff" /\ call[d].pc = "idle"
          /\ call[d].outcome = "done" /\ call[d].opRes = "ok"

\* the Execute calls that got the lock and have returned
ExecutedWithLock ==
    { c \in Callers : /\ call[c].msg = "Execute" /\ call[c].pc = "idle"
                      /\ call[c].outcome \in {"done", "RuntimeError"} }

\* the operation the Execute arm is to run for a label, by the movement the
\* label resolves to
ExpectedOps(label) ==
    CASE label \in {"takeoff", "Takeoff"} -> << <<"take_off">> >>
      [] label \in {"land", "Land"} -> << <<"land">> >>
      [] label \in {"right", "Right"} -> << <<"cw", 90>> >>
      [] label \in {"left", "Left"} -> << <<"ccw", 90>> >>
      [] label \in {"forward", "Forward"} -> << <<"forward", 100>> >>
      [] label \in {"backward", "Backward"} -> << <<"back", 100>> >>
      [] OTHER -> <<>>

\* C13 as stated: an Execute call that was connected and got the lock has
\* run exactly the one operation of its movement, and none for NoOp.
C13_ExecuteRunsItsOperation ==
    \A c \in ExecutedWithLock : call[c].ops = ExpectedOps(call[c].movement)

\* C13, amended: an Execute call that was connected, got the lock and
\* created its runtime has run exactly the one operation of its movement
\* (none for NoOp, which ends successfully); when the runtime cannot be
\* created the call ends with no operation run.
C13_ExecuteRunsItsOperationGivenRuntime ==
    \A c \in ExecutedWithLock :
        /\ call[c].outcome = "done" =>
              /\ call[c].ops = ExpectedOps(call[c].movement)
              /\ call[c].ops = <<>> => call[c].opRes = "ok"
        /\ call[c].outcome = "RuntimeError" => call[c].ops = <<>>

\* C13's case: an Execute of the label left has turned the drone
\* counter-clockwise by 90
C13_Witness ==
    \E c \in ExecutedWithLock :
        /\ call[c].movement = "left"
        /\ call[c].outcome = "done"
        /\ call[c].ops = << <<"ccw", 90>> >>

\* the captures that have failed
FailedCaptures == { c \in Callers : call[c].result.tag = "Err" }

\* the board call at which a failed capture stopped
FailedStep(c) == call[c].calls[Len(call[c].calls)].step

\* C14 as stated: the error a failed capture returns tells the step that
\* failed: two captures that return the same error failed at the same step.
C14_ErrorNamesStep ==
    \A c, d \in FailedCaptures :
        call[c].result.err = call[d].result.err => FailedStep(c) = FailedStep(d)

\* the calls that ran a device operation which failed, outside Connect
FailedCommands ==
    { c \in Callers : /\ call[c].msg \in {"Execute", "Takeoff", "Land"}
                      /\ call[c].pc = "idle" /\ call[c].opRes = "err" }

\* C15 as stated: an Execute, Takeoff or Land call whose device operation
\* failed ends with the failure reported, not as a completed action.
C15_CommandFailureReported ==
    \A c \in FailedCommands : call[c].outcome # "done"

\* the lines of a label of RenderLabels: the text between its newlines
LabelLines(label) == IF label = "up\ndown" THEN <<"up", "down">> ELSE <<label>>

\* the text of a count of RenderCounts
CountText(k) == CASE k = 0 -> "0" [] k = 2 -> "2" [] k = 10 -> "10"

RECURSIVE Unlines(_)
\* the text made of the given lines, each ended by a newline
Unlines(lines) ==
    IF lines = <<>> THEN "" ELSE Head(lines) \o "\n" \o Unlines(Tail(lines))

RECURSIVE LabelLinesNewestFirst(_, _)
\* the lines of the labels of records k, k-1, .., 1 of h
LabelLinesNewestFirst(h, k) ==
    IF k = 0 THEN <<>>
    ELSE LabelLines(h[k].prediction_label) \o LabelLinesNewestFirst(h, k - 1)

\* the counts of h, most recent first, one line each
CountLinesNewestFirst(h) ==
    [k \in 1..Len(h) |-> CountText(h[Len(h) + 1 - k].prediction_count)]

\* no label of h holds a newline
SingleLineLabels(h) == \A i \in 1..Len(h) : Len(LabelLines(h[i].prediction_label)) = 1

\* the two renderings are the texts of these lines
RenderedLines ==
    /\ out.prediction = Unlines(LabelLinesNewestFirst(history, Len(history)))
    /\ out.count = Unlines(CountLinesNewestFirst(history))

\* C16 as stated: for every history the two renderings have the same number
\* of lines and line k of each comes from the same record, most recent first.
C16_LinesInLockstep ==
    out.done =>
        /\ RenderedLines
        /\ Len(LabelLinesNewestFirst(history, Len(history))) = Len(CountLinesNewestFirst(history))
        /\ \A k \in 1..Len(history) :
              LabelLinesNewestFirst(history, Len(history))[k]
                  = history[Len(history) + 1 - k].prediction_label

\* What does hold of the two renderings: for every history whose labels hold
\* no newline they have one line per record, line k of each coming from
\* record n + 1 - k.
LockstepForSingleLineLabels ==
    out.done =>
        /\ RenderedLines
        /\ SingleLineLabels(history) =>
              /\ Len(LabelLinesNewestFirst(history, Len(history))) = Len(history)
              /\ Len(CountLinesNewestFirst(history)) = Len(history)
              /\ \A k \in 1..Len(history) :
                    /\ LabelLinesNewestFirst(history, Len(history))[k]
                          = history[Len(history) + 1 - k].prediction_label
                    /\ CountLinesNewestFirst(history)[k]
                          = CountText(history[Len(history) + 1 - k].prediction_count)

\* caller c enters update in this step
Enters(c) == call[c].pc = "idle" /\ call'[c] # call[c]

\* the flag turns the message caller c enters with away
TurnedAway(c) ==
    \/ call'[c].msg = "Connect" /\ connection
    \/ call'[c].msg \in {"Execute", "Takeoff", "Land"} /\ ~connection

\* C17: an Execute, Takeoff or Land that arrives while the flag is false, and
\* a Connect that arrives while it is true, returns at once: nothing of the
\* lock, the device handle or the handshake count changes and no operation is
\* started; so only calls that found the flag true run commands, and only
\* Connect ever creates the handle.
C17_FlagGatesCommands ==
    /\ \A c \in Callers : call[c].outcome = "none" /\ call[c].pc = "idle"
    /\ [][\A c \in Callers :
            (Enters(c) /\ TurnedAway(c)) =>
                /\ call'[c].pc = "idle"
                /\ call'[c].outcome = "gated"
                /\ call'[c].ops = <<>>
                /\ UNCHANGED <<window, shared>>]_vars
    /\ [](\A c \in Callers :
            /\ call[c].outcome = "gated" => (call[c].ops = <<>> /\ call[c].pc = "idle")
            /\ (call[c].msg \in {"Execute", "Takeoff", "Land"} /\ call[c].outcome # "gated")
                  => (connection /\ DRONE = "ready" /\ handshakes >= 1)
            /\ call[c].pc = "init" => call[c].msg = "Connect"
            /\ (~connection /\ lock # Free) => call[lock].msg = "Connect")

\* C17's case: a Takeoff was turned away before the handshake, and a Connect
\* after it
C17_Witness ==
    /\ connection
    /\ handshakes = 1
    /\ \E c, d \in Callers :
          /\ call[c].msg = "Takeoff" /\ call[c].outcome = "gated" /\ call[c].ops = <<>>
          /\ call[d].msg = "Connect" /\ call[d].outcome = "gated" /\ call[d].ops = <<>>

\* the board calls that run while the session is prepared and not yet released
WhilePrepared == {"start_stream", "stop_stream", "get_board_data"}

\* the capture of caller c called release_session
Released(c) == \E i \in 1..Len(call[c].calls) : call[c].calls[i].step = "release_session"

\* the first k calls of the capture of caller c are the first k statements of
\* read_cyton_board and all of them returned Ok
AllOkUpTo(c, k) ==
    /\ Len(call[c].calls) >= k
    /\ \A i \in 1..k : call[c].calls[i] = Made(CaptureOrder[i], TRUE)

\* C18: a capture calls release_session only after prepare_session,
\* start_stream, stop_stream and get_board_data all returned Ok; a capture
\* that fails at start_stream, stop_stream or get_board_data returns its
\* error with the session prepared and release_session never called.
C18_ReleaseOnlyAfterSuccess ==
    \A c \in Callers :
        /\ Released(c) =>
              /\ AllOkUpTo(c, Len(CaptureOrder) - 1)
              /\ call[c].calls[Len(CaptureOrder)].step = "release_session"
              /\ Len(call[c].calls) = Len(CaptureOrder)
        /\ (call[c].outcome = "CaptureError" /\ FailedStep(c) \in WhilePrepared) =>
              /\ AllOkUpTo(c, CaptureIndex("prepare_session"))
              /\ ~Released(c)
              /\ call[c].session = "Failed"
              /\ call[c].pc = "idle"
              /\ call[c].result.tag = "Err"

\* C18's case: get_board_data failed after the stream was stopped, and the
\* capture returned with six calls made and no release_session among them
C18_Witness ==
    \E c \in Callers :
        /\ call[c].outcome = "CaptureError"
        /\ FailedStep(c) = "get_board_data"
        /\ Len(call[c].calls) = 6
        /\ ~Released(c)

\* caller c is the only one inside update
Alone(c) == \A d \in Callers \ {c} : call[d].pc = "idle"

\* C19: the lock is held only by a device action between its try_lock and its
\* return, and every return of the holder frees it; so the lock is free
\* whenever nobody is inside update, a caller that is alone in update finds
\* it free, and try_lock fails only against another action in progress.
C19_LockFreedOnEveryExit ==
    /\ lock = Free
    /\ [][\A c \in Callers :
            /\ (Returns(c) /\ lock = c) => lock' = Free
            /\ (Moved(c) /\ call'[c].outcome = "LockContention") =>
                  (lock \in Callers \ {c} /\ call[lock].pc \in {"rt", "op"})]_vars
    /\ [](/\ lock # Free =>
               (call[lock].msg \in DeviceMessages /\ call[lock].pc \in {"rt", "op"})
          /\ (\A c \in Callers : call[c].pc = "idle") => lock = Free
          /\ \A c \in Callers :
                (call[c].msg \in DeviceMessages /\ call[c].pc = "lock" /\ Alone(c))
                    => lock = Free)

\* C19's case: one device action returned because Runtime::new() failed,
\* another because the handshake failed, and the lock is free
C19_Witness ==
    /\ lock = Free
    /\ \E c, d \in Callers :
          /\ call[c].msg \in DeviceMessages /\ call[c].pc = "idle"
          /\ call[c].outcome = "RuntimeError"
          /\ call[d].pc = "idle" /\ call[d].outcome = "HandshakeError"

\* the movement and the counter are those of the last record of the history,
\* or the values of PredictionWindow::new() when there is none
AgreesWithHistory ==
    IF history = <<>>
    THEN movement = "" /\ reading_counter = 0
    ELSE /\ movement = history[Len(history)].prediction_label
         /\ reading_counter = history[Len(history)].prediction_count

\* C20: the movement and the reading counter always agree with the history;
\* an Execute that passes the gate clones the label of the last record, no
\* step of an Execute changes the window, and the operation an Execute has
\* run is the one of the label it cloned.
C20_WindowAgreesWithHistory ==
    /\ AgreesWithHistory
    /\ [][\A c \in Callers :
            /\ (Enters(c) /\ call'[c].msg = "Execute" /\ call'[c].pc # "idle") =>
                  /\ call'[c].movement = movement
                  /\ history # <<>> =>
                        call'[c].movement = history[Len(history)].prediction_label
            /\ (Moved(c) /\ call'[c].msg = "Execute") => UNCHANGED window]_vars
    /\ [](/\ AgreesWithHistory
          /\ \A c \in Callers :
                (call[c].msg = "Execute" /\ call[c].outcome = "done") =>
                    call[c].ops = ExpectedOps(call[c].movement))

\* C20's case: after two predictions an Execute ran the operation of the
\* second one, which the movement and the counter show
C20_Witness ==
    /\ Len(history) = 2
    /\ history[1].prediction_label # history[2].prediction_label
    /\ history[2] = Prediction("land", 2)
    /\ movement = "land" /\ reading_counter = 2
    /\ \E c \in Callers :
          /\ call[c].msg = "Execute" /\ call[c].outcome = "done"
          /\ call[c].movement = "land"
          /\ call[c].ops = ExpectedOps("land")

====
